---- MODULE Spec2Model ----
(***************************************************************************)
(* A model of ansimple.py: the session class `ansimple` (per-host fact and *)
(* variable stores, filtered views, the module-call dispatcher) and the    *)
(* response aggregator `AnsimpleRensponse`.                                *)
(*                                                                         *)
(* Python dicts are functions whose DOMAIN is the set of keys present; a   *)
(* collections.defaultdict(dict) is a function total over the host names,  *)
(* an untouched host holding the empty dict.  Python object references     *)
(* (self.facts, self.vars, self.last) are indices into a heap.             *)
(***************************************************************************)
EXTENDS Integers, Sequences, FiniteSets, TLC

(***************************************************************************)
(* Bounds of the model.                                                    *)
(***************************************************************************)
\* session objects alive at once: the root session and its filtered views
MaxSessions == 3
\* runs of the external engine (one response object is built per run)
MaxCalls == 2

(***************************************************************************)
(* Dictionaries.                                                           *)
(***************************************************************************)
\* {}
EmptyMap == [k \in {} |-> TRUE]

\* d.get(k, default)
Get(d, k, default) == IF k \in DOMAIN d THEN d[k] ELSE default

\* d[k] = v
Put(d, k, v) == [x \in (DOMAIN d) \cup {k} |-> IF x = k THEN v ELSE d[x]]

\* d.update(e)
Update(d, e) == [x \in (DOMAIN d) \cup (DOMAIN e) |-> IF x \in DOMAIN e THEN e[x] ELSE d[x]]

\* every dict with keys among K and values in V
Maps(K, V) == UNION {[S -> V] : S \in SUBSET K}

(***************************************************************************)
(* AnsimpleRensponse                                                       *)
(***************************************************************************)
\* sum(1 for res in m.values() if res.get(flag, False))
Flagged(m, flag) == Cardinality({h \in DOMAIN m : Get(m[h], flag, FALSE)})

total_count(answered, not_answered) ==
    Cardinality(DOMAIN answered) + Cardinality(DOMAIN not_answered)

err_count_answered_only(answered, not_answered) == Flagged(answered, "failed")

err_count(answered, not_answered) ==
    Flagged(answered, "failed") + Flagged(not_answered, "failed")

changed_count(answered, not_answered) ==
    Flagged(answered, "changed") + Flagged(not_answered, "changed")

all_ok(err) == (err = 0)

some_ok(ok, err) == all_ok(err) \/ (ok > 0)

none_ok_ignoring_errors(ok, err) == (ok = 0)

none_ok(ok, err) == (ok = 0) /\ (err > 0)

all_failed_literal(ok, err) == (ok = 0)

all_failed(ok, err) == none_ok(ok, err)

\* the constructor: `response` is the engine's raw result, a dict that may
\* hold 'contacted' and 'dark'
AnsimpleRensponse(response) ==
    LET not_answered == Get(response, "dark", EmptyMap)
        answered     == Get(response, "contacted", EmptyMap)
        total        == total_count(answered, not_answered)
        err          == err_count(answered, not_answered)
        ok           == total - err
        changed      == changed_count(answered, not_answered)
    IN  [ not_answered  |-> not_answered,
          answered      |-> answered,
          facts         |-> [h \in DOMAIN answered |->
                                Get(answered[h], "ansible_facts", EmptyMap)],
          total_count   |-> total,
          err_count     |-> err,
          ok_count      |-> ok,
          changed_count |-> changed,
          all_ok        |-> all_ok(err),
          some_ok       |-> some_ok(ok, err),
          none_ok       |-> none_ok(ok, err),
          all_failed    |-> all_failed(ok, err),
          some_failed   |-> (err > 0),
          none_failed   |-> all_ok(err),
          all_changed   |-> (total = changed),
          some_changed  |-> (changed > 0),
          none_changed  |-> (changed = 0) ]

getitem_dark_first(r, host) ==
    IF host \in DOMAIN r.not_answered THEN r.not_answered[host]
    ELSE Get(r.answered, host, EmptyMap)

\* AnsimpleRensponse.__getitem__
getitem(r, host) ==
    IF host \in DOMAIN r.answered THEN r.answered[host]
    ELSE Get(r.not_answered, host, EmptyMap)

\* AnsimpleRensponse.failed
failed(r) == r.all_failed

\* AnsimpleRensponse.success
success(r) == r.all_ok

\* AnsimpleRensponse.empty
empty(r) == (r.total_count = 0)

(***************************************************************************)
(* The inventory.  Pattern resolution belongs to the external engine       *)
(* (ansible.inventory.Inventory.get_hosts): a pattern is a ':'-separated   *)
(* list of terms; the plain terms are united (no plain term means 'all'),  *)
(* and the result is then intersected with every '&' term.                 *)
(***************************************************************************)
Hosts == {"h1", "h2", "h3"}

GroupNames == {"g1", "g2"}

\* the hosts a single name selects
Members(name) ==
    CASE name = "all"   -> Hosts
      [] name = "g1"    -> {"h1", "h2"}
      [] name = "g2"    -> {"h2", "h3"}
      [] name \in Hosts -> {name}
      [] OTHER          -> {}

\* the pattern string 'name'
Name(name) == << [op |-> "", name |-> name] >>

\* '%s:&%s' % (pattern, name)
Conj(pattern, name) == Append(pattern, [op |-> "&", name |-> name])

\* inventory.get_hosts(pattern), as the set of host names
get_hosts(pattern) ==
    LET plain == {i \in DOMAIN pattern : pattern[i].op = ""}
        inter == {i \in DOMAIN pattern : pattern[i].op = "&"}
        base  == IF plain = {} THEN Hosts
                 ELSE UNION {Members(pattern[i].name) : i \in plain}
    IN  {h \in base : \A i \in inter : h \in Members(pattern[i].name)}

(***************************************************************************)
(* State.                                                                  *)
(***************************************************************************)
VARIABLES
    sessions,    \* the session objects: [pattern, facts, vars, last]; facts and
                 \* vars are references into factStores / varStores, last is the
                 \* identity of the retained response (0: none yet)
    parent,      \* history: the session a view was filtered from (0: the root)
    factStores,  \* heap of fact stores, each host -> dict
    varStores,   \* heap of variable stores, each host -> dict
    runs,        \* runs of the external engine so far; the response built from
                 \* run n has identity n
    ev,          \* the last operation: [op, s, outcome]; s is the session a
                 \* write of variables went through, and 0 for the others
    latest,      \* history: per host and fact key, the value most recently
                 \* returned as a fact by a call (initially the initial facts)
    returned,    \* history: per session, the identity of the response its
                 \* most recent call returned (0: none yet)
    given,       \* the mapping under test of the variable-layering runs
    raw,         \* response runs: the engine's raw result
    resp,        \* response runs: << >> or << the response built from raw >>
    looked,      \* response runs: << >> or << [host, value] >> of the last lookup
    answer       \* response runs: << >> or << the last result of failed() >>

sessVars == <<sessions, parent, factStores, varStores, runs, ev, latest, returned, given>>

respVars == <<raw, resp, looked, answer>>

vars == <<sessions, parent, factStores, varStores, runs, ev, latest, returned, given,
          raw, resp, looked, answer>>

(***************************************************************************)
(* ansimple: construction, scope, reads.                                   *)
(***************************************************************************)
\* the fact store a constructor builds: facts[host]['ansible_hostname'] = host
\* for the hosts of the new object's scope
InitialFacts(pattern) ==
    [h \in Hosts |-> IF h \in get_hosts(Conj(pattern, "all"))
                     THEN [k \in {"ansible_hostname"} |-> h]
                     ELSE EmptyMap]

\* the variable store a constructor builds
InitialVars == [h \in Hosts |-> EmptyMap]

\* the object ansimple(inventory, pattern) builds as the n-th object: it owns
\* the n-th fact store and the n-th variable store; self.last is not set
NewSession(pattern, n) == [pattern |-> pattern, facts |-> n, vars |-> n, last |-> 0]

FilteredOwnStores(self, pattern, n) == NewSession(Conj(self.pattern, pattern), n)

\* the object filter() returns: a new object whose stores are rebound to self's
Filtered(self, pattern, n) ==
    [NewSession(Conj(self.pattern, pattern), n) EXCEPT
        !.facts = self.facts, !.vars = self.vars]

\* ansimple.hosts(), of session s
hosts(s) == get_hosts(Conj(sessions[s].pattern, "all"))

\* ansimple.__getitem__: the facts of host read through session s
facts(s, host) == factStores[sessions[s].facts][host]

\* ansimple.hostvars
hostvars(s, host) == varStores[sessions[s].vars][host]

\* ansimple.hostvar
hostvar(s, host, name, default) == Get(hostvars(s, host), name, default)

(***************************************************************************)
(* ansimple: variables.                                                    *)
(***************************************************************************)
\* every ordering of the set S as a list
Orders(S) == {f \in [1..Cardinality(S) -> S] : \A i, j \in DOMAIN f : f[i] = f[j] => i = j}

\* list(S): the elements of a set in its iteration order, which is one fixed
\* order for one set
ListOf(S) == CHOOSE o \in Orders(S) : TRUE

\* group_patterns: the keys of data that are neither 'all' nor a host of the scope
group_patterns(data, scope) == {p \in DOMAIN data : p /= "all" /\ p \notin scope}

sorted_patterns_hosts_first(groupOrder, hostOrder) == <<"all">> \o hostOrder \o groupOrder

\* sorted_patterns: first 'all', then every other pattern, then the hosts; the
\* two lists come from a dict's keys and from a set, in their iteration order
sorted_patterns(groupOrder, hostOrder) == <<"all">> \o groupOrder \o hostOrder

targets_unscoped(pattern, p) == get_hosts(Name(p))

\* the hosts one layer is written to: get_hosts('%s:&%s' % (self.pattern, pattern))
targets(pattern, p) == get_hosts(Conj(pattern, p))

\* the loop over sorted_patterns: every key of data.get(pattern, {}) is written
\* to every targeted host
RECURSIVE ApplyPatterns(_, _, _, _)
ApplyPatterns(store, pattern, data, patterns) ==
    IF patterns = << >> THEN store
    ELSE LET p     == Head(patterns)
             entry == Get(data, p, EmptyMap)
             next  == [h \in Hosts |-> IF h \in targets(pattern, p)
                                       THEN Update(store[h], entry)
                                       ELSE store[h]]
         IN  ApplyPatterns(next, pattern, data, Tail(patterns))

\* setvar's loop
SetVar(store, scope, var_name, var_value) ==
    [h \in Hosts |-> IF h \in scope THEN Put(store[h], var_name, var_value) ELSE store[h]]

\* sethostvars' loop
SetHostVars(store, scope, var_name, host_vars) ==
    [h \in Hosts |-> IF h \in scope /\ h \in DOMAIN host_vars
                     THEN Put(store[h], var_name, host_vars[h])
                     ELSE store[h]]

(***************************************************************************)
(* ansimple: the call dispatcher.                                          *)
(***************************************************************************)
MergeFactsReplacing(store, rfacts) ==
    [h \in Hosts |-> IF h \in DOMAIN rfacts THEN rfacts[h] ELSE store[h]]

\* save response facts: self.facts[host].update(facts)
MergeFacts(store, rfacts) ==
    [h \in Hosts |-> IF h \in DOMAIN rfacts THEN Update(store[h], rfacts[h]) ELSE store[h]]

\* the fact keys a raw result returns for a host
ReturnedKeys(rawResult, h) ==
    LET contacted == Get(rawResult, "contacted", EmptyMap)
    IN  IF h \in DOMAIN contacted
        THEN DOMAIN Get(contacted[h], "ansible_facts", EmptyMap)
        ELSE {}

\* history: the most recently returned value of every fact, after a call
\* whose raw result was rawResult
Latest(old, rawResult) ==
    [h \in Hosts |->
        [k \in (DOMAIN old[h]) \cup ReturnedKeys(rawResult, h) |->
            IF k \in ReturnedKeys(rawResult, h)
            THEN rawResult["contacted"][h]["ansible_facts"][k]
            ELSE old[h][k]]]

(***************************************************************************)
(* Operations on a session.                                                *)
(***************************************************************************)
Event(op, s, outcome) == [op |-> op, s |-> s, outcome |-> outcome]

\* an exception leaves the handler: nothing was assigned
Raise(op) ==
    /\ ev' = Event(op, 0, "raised")
    /\ UNCHANGED <<sessions, parent, factStores, varStores, runs, latest, returned, given>>
    /\ UNCHANGED respVars

\* view = self.filter(pattern): the constructor builds a new object with
\* stores of its own, which filter then rebinds
filter(s, pattern) ==
    /\ s \in DOMAIN sessions
    /\ Len(sessions) < MaxSessions
    /\ LET n == Len(sessions) + 1
           p == Conj(sessions[s].pattern, pattern)
       IN  /\ sessions' = Append(sessions, Filtered(sessions[s], pattern, n))
           /\ parent' = Append(parent, s)
           /\ factStores' = Append(factStores, InitialFacts(p))
           /\ varStores' = Append(varStores, InitialVars)
           /\ returned' = Append(returned, 0)
           /\ ev' = Event("filter", 0, "ok")
    /\ UNCHANGED <<runs, latest, given>>
    /\ UNCHANGED respVars

\* self.initvars(allvars); allvars is a dict, a path (its value is what the
\* file holds) or anything else
initvars(s, allvars) ==
    /\ s \in DOMAIN sessions
    /\ IF allvars.type \notin {"dict", "str"}
       THEN Raise("initvars")
       ELSE LET data == allvars.value
            IN  \E groupOrder \in Orders(group_patterns(data, hosts(s))) :
                    /\ varStores' = [varStores EXCEPT ![sessions[s].vars] =
                          ApplyPatterns(@, sessions[s].pattern, data,
                                        sorted_patterns(groupOrder, ListOf(hosts(s))))]
                    /\ ev' = Event("initvars", s, "ok")
                    /\ UNCHANGED <<sessions, parent, factStores, runs, latest, returned, given>>
                    /\ UNCHANGED respVars

\* self.setvar(var_name, var_value)
setvar(s, var_name, var_value) ==
    /\ s \in DOMAIN sessions
    /\ varStores' = [varStores EXCEPT ![sessions[s].vars] =
                        SetVar(@, hosts(s), var_name, var_value)]
    /\ ev' = Event("setvar", s, "ok")
    /\ UNCHANGED <<sessions, parent, factStores, runs, latest, returned, given>>
    /\ UNCHANGED respVars

\* self.sethostvars(var_name, host_vars)
sethostvars(s, var_name, host_vars) ==
    /\ s \in DOMAIN sessions
    /\ varStores' = [varStores EXCEPT ![sessions[s].vars] =
                        SetHostVars(@, hosts(s), var_name, host_vars)]
    /\ ev' = Event("sethostvars", s, "ok")
    /\ UNCHANGED <<sessions, parent, factStores, runs, latest, returned, given>>
    /\ UNCHANGED respVars

\* the engine ran and returned rawResult: the response is built, its facts are
\* merged, and the response is retained as self.last and returned
RunAndSave(s, rawResult) ==
    /\ runs < MaxCalls
    /\ LET response == AnsimpleRensponse(rawResult)
       IN  factStores' = [factStores EXCEPT ![sessions[s].facts] =
                             MergeFacts(@, response.facts)]
    /\ runs' = runs + 1
    /\ sessions' = [sessions EXCEPT ![s].last = runs + 1]
    /\ returned' = [returned EXCEPT ![s] = runs + 1]
    /\ latest' = Latest(latest, rawResult)
    /\ UNCHANGED <<parent, varStores, given>>
    /\ UNCHANGED respVars

ansible_runner_checking_late(s, op, nargs, rawResult) ==
    /\ s \in DOMAIN sessions
    /\ RunAndSave(s, rawResult)
    /\ ev' = Event(op, 0, IF nargs > 1 THEN "raised" ELSE "ok")

\* self.<module>(*args, **kwargs) with nargs positional arguments, the engine
\* answering rawResult
ansible_runner(s, op, nargs, rawResult) ==
    /\ s \in DOMAIN sessions
    /\ IF nargs > 1
       THEN Raise(op)
       ELSE /\ RunAndSave(s, rawResult)
            /\ ev' = Event(op, 0, "ok")

\* self.<module>(...)
module_call(s, nargs, rawResult) == ansible_runner(s, "call", nargs, rawResult)

\* self.set_fact(**kwargs): the set_fact module, keyword arguments only
set_fact(s, rawResult) == ansible_runner(s, "set_fact", 0, rawResult)

(***************************************************************************)
(* Operations on a response.                                               *)
(***************************************************************************)
\* response = AnsimpleRensponse(raw)
Build ==
    /\ resp = << >>
    /\ resp' = << AnsimpleRensponse(raw) >>
    /\ UNCHANGED <<raw, looked, answer>>
    /\ UNCHANGED sessVars

\* response[host]
Lookup(host) ==
    /\ resp /= << >>
    /\ looked' = << [host |-> host, value |-> getitem(resp[1], host)] >>
    /\ UNCHANGED <<raw, resp, answer>>
    /\ UNCHANGED sessVars

\* response.failed()
AskFailed ==
    /\ resp /= << >>
    /\ answer' = << failed(resp[1]) >>
    /\ UNCHANGED <<raw, resp, looked>>
    /\ UNCHANGED sessVars

(***************************************************************************)
(* Inputs.                                                                 *)
(***************************************************************************)
\* variable names
VarKeys == {"x", "y"}

\* what the engine reports for a host it reached: with or without facts
ContactedResults(vals) ==
    {EmptyMap} \cup {[k \in {"ansible_facts"} |-> f] : f \in [{"f"} -> vals]}

\* what the engine reports for a host it did not reach
DarkResults == {[k \in {"failed"} |-> TRUE]}

\* the raw results of a run over the hosts hs: each host is reached or not
EngineResults(hs, vals) ==
    UNION {{[k \in {"contacted", "dark"} |-> IF k = "contacted" THEN c ELSE d] :
                c \in [hs \ D -> ContactedResults(vals)], d \in [D -> DarkResults]} :
           D \in SUBSET hs}

\* the raw results of a set_fact run: a reached host returns the keyword
\* arguments as its facts
SetFactResults(hs, kwargs) ==
    {[k \in {"contacted", "dark"} |->
        IF k = "contacted" THEN [h \in hs \ D |-> [a \in {"ansible_facts"} |-> kwargs]]
        ELSE [h \in D |-> [a \in {"failed"} |-> TRUE]]] : D \in SUBSET hs}

Dict(value) == [type |-> "dict", value |-> value]

Path(value) == [type |-> "str", value |-> value]

NotADict == [type |-> "other"]

\* initvars arguments of the interleaved runs: one pattern with one variable
SmallArgs ==
    {NotADict}
    \cup {Dict([p \in {n} |-> e]) : n \in {"all", "g2", "h1"}, e \in [{"x"} -> {1}]}
    \cup {Path([p \in {n} |-> e]) : n \in {"all"}, e \in [{"x"} -> {1}]}

\* initvars arguments of the layering runs: an 'all' entry, a group entry and
\* a host entry, each defining any of the variables, each layer with a value
\* of its own
LayeredArgs ==
    {Dict([p \in {"all", g, h} |->
              IF p = "all" THEN eall ELSE IF p = g THEN egroup ELSE ehost]) :
        g \in GroupNames, h \in Hosts,
        eall \in Maps(VarKeys, {1}), egroup \in Maps(VarKeys, {2}),
        ehost \in Maps(VarKeys, {3})}

\* the raw results of the response runs
RespHosts == {"h1", "h2"}

Results == Maps({"failed", "changed"}, BOOLEAN)

RawResponses ==
    {[k \in K |-> IF k = "contacted" THEN a ELSE d] :
        K \in {{"contacted", "dark"}, {"contacted"}, {"dark"}, {}},
        a \in Maps(RespHosts, Results), d \in Maps(RespHosts, Results)}

(***************************************************************************)
(* Specifications.                                                         *)
(***************************************************************************)
\* no response under study
NoResponse ==
    /\ raw = EmptyMap
    /\ resp = << >>
    /\ looked = << >>
    /\ answer = << >>

\* the state after ansimple(inventory, pattern, default_vars)
Constructed(pattern, default_vars) ==
    /\ sessions = << NewSession(Name(pattern), 1) >>
    /\ parent = << 0 >>
    /\ factStores = << InitialFacts(Name(pattern)) >>
    /\ varStores = << IF default_vars = EmptyMap THEN InitialVars
                      ELSE ApplyPatterns(InitialVars, Name(pattern),
                               [p \in {"all"} |-> default_vars],
                               sorted_patterns(<< >>,
                                   ListOf(get_hosts(Conj(Name(pattern), "all"))))) >>
    /\ runs = 0
    /\ ev = Event("init", 0, "ok")
    /\ latest = InitialFacts(Name(pattern))
    /\ returned = << 0 >>

\* Interleaved runs: every operation, through a root session over g1 or any
\* of its views.
Init ==
    /\ Constructed("g1", EmptyMap)
    /\ given = NotADict
    /\ NoResponse

Next ==
    \/ \E s \in DOMAIN sessions, pattern \in {"g2"} : filter(s, pattern)
    \/ \E s \in DOMAIN sessions, nargs \in 1..2 :
          \E r \in IF nargs > 1 THEN {EmptyMap} ELSE EngineResults(hosts(s), {"v1"}) :
              module_call(s, nargs, r)
    \/ \E s \in DOMAIN sessions, kwargs \in [{"f"} -> {"v1"}] :
          \E r \in SetFactResults(hosts(s), kwargs) : set_fact(s, r)
    \/ \E s \in DOMAIN sessions, allvars \in SmallArgs : initvars(s, allvars)
    \/ \E s \in DOMAIN sessions, v \in {1} : setvar(s, "x", v)
    \/ \E s \in DOMAIN sessions, host_vars \in {[h \in {n} |-> 1] : n \in Hosts} :
          sethostvars(s, "x", host_vars)

Spec == Init /\ [][Next]_vars

\* Fact runs: module calls and set_fact, through a root session over g1 or
\* any of its views, the engine returning either of two values of a fact.
NextFacts ==
    \/ \E s \in DOMAIN sessions, pattern \in {"g2"} : filter(s, pattern)
    \/ \E s \in DOMAIN sessions, nargs \in 0..2 :
          \E r \in IF nargs > 1 THEN {EmptyMap} ELSE EngineResults(hosts(s), {"v1", "v2"}) :
              module_call(s, nargs, r)
    \/ \E s \in DOMAIN sessions, kwargs \in [{"f"} -> {"v1", "v2"}] :
          \E r \in SetFactResults(hosts(s), kwargs) : set_fact(s, r)

SpecFacts == Init /\ [][NextFacts]_vars

\* Layering runs: one mapping, initialised through a root session over all
\* hosts, constructed with default_vars {'x': 0}, or any of its views.
InitVars ==
    /\ Constructed("all", [k \in {"x"} |-> 0])
    /\ given \in LayeredArgs
    /\ NoResponse

NextVars ==
    \/ \E s \in DOMAIN sessions, pattern \in GroupNames : filter(s, pattern)
    \/ \E s \in DOMAIN sessions : initvars(s, given)

SpecVars == InitVars /\ [][NextVars]_vars

\* Response runs: one raw result, built into a response and then inspected.
InitResp ==
    /\ raw \in RawResponses
    /\ resp = << >>
    /\ looked = << >>
    /\ answer = << >>
    /\ sessions = << >>
    /\ parent = << >>
    /\ factStores = << >>
    /\ varStores = << >>
    /\ runs = 0
    /\ ev = Event("init", 0, "ok")
    /\ latest = InitialVars
    /\ returned = << >>
    /\ given = NotADict

NextResp ==
    \/ Build
    \/ \E host \in Hosts : Lookup(host)
    \/ AskFailed

SpecResp == InitResp /\ [][NextResp]_vars

(***************************************************************************)
(* Properties.                                                             *)
(***************************************************************************)
\* the answered and unanswered maps of the raw result under study
RawAnswered == Get(raw, "contacted", EmptyMap)

RawUnanswered == Get(raw, "dark", EmptyMap)

\* the hosts of a map whose result carries the flag, set to true
WithFlag(m, flag) == {h \in DOMAIN m : flag \in DOMAIN m[h] /\ m[h][flag] = TRUE}

\* answered={'h1':{'changed':True}}, unanswered={'h2':{'failed':True}}
ExampleRaw ==
    [k \in {"contacted", "dark"} |->
        IF k = "contacted" THEN [h \in {"h1"} |-> [f \in {"changed"} |-> TRUE]]
        ELSE [h \in {"h2"} |-> [f \in {"failed"} |-> TRUE]]]

\* C1: a response's total_count is the number of answered plus the number of
\* unanswered entries, err_count the number of results flagged failed over
\* both maps, ok_count = total_count - err_count, changed_count the number of
\* results flagged changed over both maps; the example response counts
\* total 2, ok 1, err 1, changed 1 and is not all_ok.
C1_Counts ==
    resp /= << >> =>
        LET r == resp[1]
        IN  /\ r.total_count = Cardinality(DOMAIN RawAnswered) + Cardinality(DOMAIN RawUnanswered)
            /\ r.err_count = Cardinality(WithFlag(RawAnswered, "failed"))
                             + Cardinality(WithFlag(RawUnanswered, "failed"))
            /\ r.ok_count = r.total_count - r.err_count
            /\ r.changed_count = Cardinality(WithFlag(RawAnswered, "changed"))
                                 + Cardinality(WithFlag(RawUnanswered, "changed"))
            /\ (raw = ExampleRaw =>
                  /\ r.total_count = 2
                  /\ r.ok_count = 1
                  /\ r.err_count = 1
                  /\ r.changed_count = 1
                  /\ r.all_ok = FALSE)

\* the example response has been built
C1_Witness == resp /= << >> /\ raw = ExampleRaw

\* C2: for every response, one with zero hosts included, all_ok holds iff
\* err_count = 0, and none_ok holds iff ok_count = 0 and err_count > 0.
C2_OkFlags ==
    resp /= << >> =>
        LET r == resp[1]
        IN  /\ r.all_ok <=> (r.err_count = 0)
            /\ r.none_ok <=> (r.ok_count = 0 /\ r.err_count > 0)

\* a response with zero hosts has been built: all_ok, and not none_ok
C2_Witness ==
    /\ resp /= << >>
    /\ resp[1].total_count = 0
    /\ resp[1].all_ok
    /\ ~ resp[1].none_ok

\* C5: a per-host lookup returns the answered result when the host is in the
\* answered map, otherwise the unanswered result when the host is in the
\* unanswered map, otherwise an empty map.
C5_Lookup ==
    looked /= << >> =>
        LET h == looked[1].host
        IN  looked[1].value =
                IF h \in DOMAIN RawAnswered THEN RawAnswered[h]
                ELSE IF h \in DOMAIN RawUnanswered THEN RawUnanswered[h]
                ELSE EmptyMap

\* a host the response does not track was looked up in a response of two
\* hosts, and the lookup returned the empty map
C5_Witness ==
    /\ looked /= << >>
    /\ resp[1].total_count = 2
    /\ looked[1].host \notin (DOMAIN RawAnswered) \cup (DOMAIN RawUnanswered)
    /\ looked[1].value = EmptyMap

\* C6, as claimed: for every response, one with zero hosts included,
\* all_failed is true exactly when ok_count = 0.
C6_Original ==
    resp /= << >> => (resp[1].all_failed <=> (resp[1].ok_count = 0))

\* C6, amended: all_failed is true exactly when the response has at least one
\* host and no host succeeded; for a response with zero hosts it is false.
C6_AllFailed ==
    resp /= << >> =>
        (resp[1].all_failed <=> (resp[1].total_count > 0 /\ resp[1].ok_count = 0))

\* a response with zero hosts has been built: no host succeeded, and
\* all_failed is false
C6_Witness ==
    /\ resp /= << >>
    /\ resp[1].total_count = 0
    /\ resp[1].ok_count = 0
    /\ ~ resp[1].all_failed

\* C9: failed() is true if and only if at least one result, answered or
\* unanswered, is flagged failed.
C9_FailedIsAny ==
    answer /= << >> =>
        (answer[1] <=> (WithFlag(RawAnswered, "failed") \cup WithFlag(RawUnanswered, "failed") /= {}))

\* C4: the facts and the variables read for any host through a filtered view
\* equal those read through the session it was filtered from.
C4_SharedStores ==
    \A c \in DOMAIN sessions :
        parent[c] /= 0 =>
            \A h \in Hosts :
                /\ facts(c, h) = facts(parent[c], h)
                /\ hostvars(c, h) = hostvars(parent[c], h)

\* a view of a view reads a fact returned by a call and a variable written for
\* a host outside its own scope
C4_Witness ==
    \E c \in DOMAIN sessions :
        /\ parent[c] /= 0
        /\ parent[parent[c]] /= 0
        /\ "h1" \notin hosts(c)
        /\ "f" \in DOMAIN facts(c, "h1")
        /\ "x" \in DOMAIN hostvars(c, "h1")
        /\ "f" \in DOMAIN facts(c, "h2")

\* C7: a call that raises for misuse (a module call with more than one
\* positional argument, initvars with neither a dict nor a path) leaves the
\* fact stores, the variable stores and every retained last response as they
\* were, and the engine has not run.
C7_MisuseChangesNothing ==
    [][ev'.outcome = "raised" =>
          /\ factStores' = factStores
          /\ varStores' = varStores
          /\ sessions' = sessions
          /\ runs' = runs]_vars

\* a module call raised on a session that holds facts, variables and a last
\* response
C7_Witness ==
    /\ ev.op = "call"
    /\ ev.outcome = "raised"
    /\ \E s \in DOMAIN sessions :
          /\ sessions[s].last /= 0
          /\ "f" \in DOMAIN facts(s, "h2")
          /\ "x" \in DOMAIN hostvars(s, "h2")

\* C8: for every host and fact key, the fact store holds the value most
\* recently returned as a fact for that host by a call (the initial value if
\* none did), no key being removed; and a session's last response is the one
\* its most recent call returned.
C8_FactsAndLast ==
    \A s \in DOMAIN sessions :
        /\ \A h \in Hosts : facts(s, h) = latest[h]
        /\ sessions[s].last = returned[s]

\* two sessions have made one call each, the later one overwriting a fact
\* while the initial fact is still there
C8_Witness ==
    \E s, t \in DOMAIN sessions :
        /\ sessions[s].last = 1
        /\ sessions[t].last = 2
        /\ facts(s, "h2") = [k \in {"ansible_hostname", "f"} |-> IF k = "f" THEN "v2" ELSE "h2"]
        /\ facts(s, "h1") = [k \in {"ansible_hostname", "f"} |-> IF k = "f" THEN "v1" ELSE "h1"]

\* C10: initvars, setvar and sethostvars through a session leave the
\* variables of every host outside that session's scope unchanged.
C10_WritesStayInScope ==
    [][(ev'.op \in {"initvars", "setvar", "sethostvars"} /\ ev'.outcome = "ok") =>
          \A h \in Hosts \ hosts(ev'.s) :
              \A i \in DOMAIN varStores : varStores'[i][h] = varStores[i][h]]_vars

\* initvars went through a view: a host of its scope has the variable, a host
\* of the root's scope outside the view's has not
C10_Witness ==
    /\ ev.op = "initvars"
    /\ ev.outcome = "ok"
    /\ parent[ev.s] /= 0
    /\ "h1" \notin hosts(ev.s)
    /\ "x" \in DOMAIN hostvars(ev.s, "h2")
    /\ "x" \notin DOMAIN hostvars(ev.s, "h1")

\* C3: after initvars with an 'all' entry, a group entry and a host entry,
\* for the host, when it is in the scope and in the group, every variable has
\* the host entry's value if that entry defines it, otherwise the group
\* entry's if it defines it, otherwise the 'all' entry's if it defines it.
C3_Layering ==
    (ev.op = "initvars" /\ ev.outcome = "ok") =>
        LET data == given.value
        IN  \A h \in (DOMAIN data) \cap hosts(ev.s), g \in (DOMAIN data) \cap GroupNames :
                ("all" \in DOMAIN data /\ h \in Members(g)) =>
                    \A k \in VarKeys :
                        IF k \in DOMAIN data[h] THEN hostvar(ev.s, h, k, 0) = data[h][k]
                        ELSE IF k \in DOMAIN data[g] THEN hostvar(ev.s, h, k, 0) = data[g][k]
                        ELSE IF k \in DOMAIN data["all"] THEN hostvar(ev.s, h, k, 0) = data["all"][k]
                        ELSE TRUE

\* {all: {x: 1}, g1: {x: 2}, h2: {x: 3}} was initialised through a view whose
\* scope holds h2, and x is 3 on h2 and 2 on the other host of g1
C3_Witness ==
    /\ ev.op = "initvars"
    /\ ev.outcome = "ok"
    /\ parent[ev.s] /= 0
    /\ given.value = [p \in {"all", "g1", "h2"} |->
                          [k \in {"x"} |-> IF p = "all" THEN 1 ELSE IF p = "g1" THEN 2 ELSE 3]]
    /\ hostvar(ev.s, "h2", "x", 0) = 3
    /\ hostvar(ev.s, "h1", "x", 0) = 2

====
